---- MODULE Spec2Model ----
(***************************************************************************)
(* The dashboards of examples/user_guide/17-Dashboards.ipynb as state      *)
(* machines.                                                               *)
(*                                                                         *)
(* The notebook declares parameters, dependencies and callbacks; the       *)
(* machinery that stores validated parameter values, records which         *)
(* computation reads which parameter and re-invokes the dependents of a    *)
(* mutated parameter is the "Parameter Store / Dependency Registry /       *)
(* Recompute Trigger" of the specification.  Definitions that transcribe   *)
(* the notebook's cells keep the notebook's names; the three mechanisms    *)
(* (Validate, Affected, the Recompute steps) are written from the          *)
(* specification.                                                          *)
(*                                                                         *)
(* A parameter mutation is processed to completion before the next one is  *)
(* accepted (single-threaded execution): the set of computations still to  *)
(* be re-invoked is the position of the handler, and a dashboard is        *)
(* "settled" when that set is empty.                                       *)
(***************************************************************************)
EXTENDS Integers, Sequences, FiniteSets, TLC

VARIABLES
    explorer,       \* StockExplorer(): its parameter values
    cell,           \* which cells of the class-based dashboard have run
    stock_dmap,     \* element shown by hv.DynamicMap(explorer.load_symbol)
    smoothed,       \* element shown by rolling(stock_dmap, ...)
    outliers,       \* element shown by rolling_outlier_std(stock_dmap, ...)
    pending,        \* computations still to be re-invoked (class-based dashboard)
    widget,         \* values of the widgets symbol, variable, rolling_window
    cb_dmap,        \* element shown by hv.DynamicMap(load_symbol_cb)
    cb_smoothed,    \* element shown by rolling(dmap, ...)
    cb_pending,     \* computations still to be re-invoked (function-based dashboard)
    adv,            \* AdvancedStockExplorer(): its parameter values
    overlay,        \* the output panel displays for explorer.view
    view_calls,     \* number of calls of explorer.view so far
    adv_pending     \* computations still to be re-invoked (advanced dashboard)

vars == <<explorer, cell, stock_dmap, smoothed, outliers, pending,
          widget, cb_dmap, cb_smoothed, cb_pending,
          adv, overlay, view_calls, adv_pending>>

stockVars == <<explorer, cell, stock_dmap, smoothed, outliers, pending>>
fnVars    == <<widget, cb_dmap, cb_smoothed, cb_pending>>
advVars   == <<adv, overlay, view_calls, adv_pending>>

Range(s) == {s[i] : i \in DOMAIN s}

(***************************************************************************)
(* Bounds of the model.                                                    *)
(***************************************************************************)
\* how many window values above the default the model's inputs offer
ExtraWindows == 1
\* how many times explorer.view may be called in a run
MaxViewCalls == 3

(***************************************************************************)
(* Declarations of the notebook.                                           *)
(***************************************************************************)
stock_symbols == <<"AAPL", "IBM", "FB", "GOOG", "MSFT">>

variables == <<"open", "high", "low", "close", "volume", "adj_close">>

\* rolling_window = param.Integer(default=10, bounds=(1, 365))
rolling_window_default == 10
rolling_window_bounds_mut == <<0, 365>>
rolling_window_bounds == <<1, 365>>

\* symbol = param.ObjectSelector(default='AAPL', objects=stock_symbols)
symbol_default == "AAPL"
symbol_objects == stock_symbols

\* variable = param.ObjectSelector(default='adj_close', objects=variables)
variable_default == "adj_close"
variable_objects == variables

\* StockExplorer()
StockExplorer ==
    [rolling_window |-> rolling_window_default,
     symbol         |-> symbol_default,
     variable       |-> variable_default]

\* hv.Curve(df, ('date', 'Date'), variable) over the frame of stocks.<symbol>
Curve(symbol, variable) ==
    [kind |-> "Curve", symbol |-> symbol, variable |-> variable]

\* def load_symbol(symbol, variable='adj_close', **kwargs)
load_symbol(symbol, variable) == Curve(symbol, variable)

\* StockExplorer.load_symbol(self)
StockExplorer_load_symbol(self) == Curve(self.symbol, self.variable)

\* @param.depends('symbol', 'variable') on StockExplorer.load_symbol
load_symbol_depends_drop == {"symbol"}
load_symbol_depends_more == {"symbol", "variable", "rolling_window"}
load_symbol_depends == {"symbol", "variable"}

\* the operations applied to a DynamicMap; the statistics are the library's,
\* the result is kept as the term (operation, input element, window)
rolling(element, rolling_window) ==
    [kind |-> "rolling", src |-> element, rolling_window |-> rolling_window]

rolling_outlier_std(element, rolling_window) ==
    [kind |-> "rolling_outlier_std", src |-> element,
     rolling_window |-> rolling_window]

\* an element that has not been created yet
NoElement == [kind |-> "none"]

(***************************************************************************)
(* Values offered to the parameters: members of the declared domains and   *)
(* values just outside them.                                               *)
(***************************************************************************)
WindowInputs ==
    {rolling_window_bounds[1] - 1, rolling_window_bounds[1],
     rolling_window_bounds[2], rolling_window_bounds[2] + 1}
    \cup (rolling_window_default .. rolling_window_default + ExtraWindows)

SymbolInputs == Range(stock_symbols) \cup {"TSLA"}

VariableInputs == Range(variables) \cup {"date"}

(***************************************************************************)
(* Parameter Store: a value is stored only if it is inside the declared    *)
(* domain of its parameter; a rejected assignment leaves the store as it   *)
(* was.                                                                    *)
(***************************************************************************)
Validate(name, value) ==
    CASE name = "rolling_window" ->
            /\ value \in Int
            /\ rolling_window_bounds[1] <= value
            /\ value <= rolling_window_bounds[2]
      [] name = "symbol"    -> value \in Range(symbol_objects)
      [] name = "variable"  -> value \in Range(variable_objects)
      [] name = "datashade" -> value \in BOOLEAN

(***************************************************************************)
(* Dependencies the notebook declares.                                     *)
(***************************************************************************)
\* rolling(stock_dmap, rolling_window=explorer.param.rolling_window)
smoothed_depends == {"rolling_window"}

\* rolling_outlier_std(stock_dmap, rolling_window=explorer.param.rolling_window)
outliers_depends_mut == {}
outliers_depends == {"rolling_window"}

\* @pn.depends(symbol=symbol.param.value, variable=variable.param.value):
\* keyword argument of load_symbol_cb |-> the widget whose value it receives
load_symbol_cb_depends_swapped == [symbol |-> "variable", variable |-> "symbol"]
load_symbol_cb_depends == [symbol |-> "symbol", variable |-> "variable"]

\* rolling(dmap, rolling_window=rolling_window.param.value)
cb_smoothed_depends == {"rolling_window"}

\* @param.depends('datashade') on AdvancedStockExplorer.view
view_depends_none == {}
view_depends_more == {"datashade", "symbol"}
view_depends == {"datashade"}

\* rolling(stocks, rolling_window=self.param.rolling_window) in view
view_smoothed_depends == {"rolling_window"}

\* rolling_outlier_std(stocks, rolling_window=self.param.rolling_window) in view
view_outliers_depends == {"rolling_window"}

(***************************************************************************)
(* Dependency Registry and Recompute Trigger.                              *)
(***************************************************************************)
\* the parameters (or widgets) a computation reads itself
Depends(node) ==
    CASE node = "stock_dmap"    -> load_symbol_depends
      [] node = "smoothed"      -> smoothed_depends
      [] node = "outliers"      -> outliers_depends
      [] node = "dmap"          -> Range(load_symbol_cb_depends)
      [] node = "cb_smoothed"   -> cb_smoothed_depends
      [] node = "view"          -> view_depends
      [] node = "stocks"        -> load_symbol_depends
      [] node = "view_smoothed" -> view_smoothed_depends
      [] node = "view_outliers" -> view_outliers_depends

\* the computations whose output a computation takes as its input
Upstream(node) ==
    CASE node = "smoothed"      -> {"stock_dmap"}
      [] node = "outliers"      -> {"stock_dmap"}
      [] node = "cb_smoothed"   -> {"dmap"}
      [] node = "view_smoothed" -> {"stocks"}
      [] node = "view_outliers" -> {"stocks"}
      [] OTHER                  -> {}

\* the computations of the class-based dashboard once the given cells have run
Created(c) ==
    IF c = "dmap" THEN {"stock_dmap"}
    ELSE {"stock_dmap", "smoothed", "outliers"}

\* the computations of the function-based dashboard
FnNodes == {"dmap", "cb_smoothed"}

\* the computations of the advanced dashboard: view, and the DynamicMaps the
\* last call of view created
AdvNodes == {"view", "stocks", "view_smoothed", "view_outliers"}

\* the computations depending on a parameter, directly or through their input
Affected(name, nodes) ==
    {n \in nodes :
        \/ name \in Depends(n)
        \/ \E m \in Upstream(n) : name \in Depends(m)}

\* a pending computation is re-invoked once its input is up to date
Ready(node, waiting) == node \in waiting /\ Upstream(node) \cap waiting = {}

(***************************************************************************)
(* The class-based dashboard (StockExplorer).                              *)
(***************************************************************************)
\* the values of a dashboard's variables while its cells have not run
IdleExplorer == [rolling_window |-> 0, symbol |-> "None", variable |-> "None"]

IdleAdv ==
    [rolling_window |-> 0, symbol |-> "None", variable |-> "None",
     datashade |-> FALSE]

IdleWidget == [symbol |-> "None", variable |-> "None", rolling_window |-> 0]

\* explorer = StockExplorer(); stock_dmap = hv.DynamicMap(explorer.load_symbol)
\* and its first display
InitStock ==
    /\ explorer = StockExplorer
    /\ cell = "dmap"
    /\ stock_dmap = StockExplorer_load_symbol(StockExplorer)
    /\ smoothed = NoElement
    /\ outliers = NoElement
    /\ pending = {}
    /\ widget = IdleWidget
    /\ cb_dmap = NoElement
    /\ cb_smoothed = NoElement
    /\ cb_pending = {}
    /\ adv = IdleAdv
    /\ overlay = NoElement
    /\ view_calls = 0
    /\ adv_pending = {}

\* explorer.<name> = value, from a widget of explorer.param or from code
SetParam(name, value) ==
    /\ pending = {}
    /\ IF Validate(name, value) /\ explorer[name] # value
       THEN /\ explorer' = [explorer EXCEPT ![name] = value]
            /\ pending' = Affected(name, Created(cell))
       ELSE UNCHANGED <<explorer, pending>>
    /\ UNCHANGED <<cell, stock_dmap, smoothed, outliers>>
    /\ UNCHANGED <<fnVars, advVars>>

SetRollingWindow == \E v \in WindowInputs : SetParam("rolling_window", v)

SetSymbol == \E v \in SymbolInputs : SetParam("symbol", v)

SetVariable == \E v \in VariableInputs : SetParam("variable", v)

\* the cell that passes explorer.param.rolling_window to the two operations
RunRollingCell ==
    /\ cell = "dmap"
    /\ pending = {}
    /\ cell' = "rolling"
    /\ smoothed' = rolling(stock_dmap, explorer.rolling_window)
    /\ outliers' = rolling_outlier_std(stock_dmap, explorer.rolling_window)
    /\ UNCHANGED <<explorer, stock_dmap, pending>>
    /\ UNCHANGED <<fnVars, advVars>>

RecomputeStockDmap ==
    /\ Ready("stock_dmap", pending)
    /\ stock_dmap' = StockExplorer_load_symbol(explorer)
    /\ pending' = pending \ {"stock_dmap"}
    /\ UNCHANGED <<explorer, cell, smoothed, outliers>>
    /\ UNCHANGED <<fnVars, advVars>>

RecomputeSmoothed ==
    /\ Ready("smoothed", pending)
    /\ smoothed' = rolling(stock_dmap, explorer.rolling_window)
    /\ pending' = pending \ {"smoothed"}
    /\ UNCHANGED <<explorer, cell, stock_dmap, outliers>>
    /\ UNCHANGED <<fnVars, advVars>>

RecomputeOutliers ==
    /\ Ready("outliers", pending)
    /\ outliers' = rolling_outlier_std(stock_dmap, explorer.rolling_window)
    /\ pending' = pending \ {"outliers"}
    /\ UNCHANGED <<explorer, cell, stock_dmap, smoothed>>
    /\ UNCHANGED <<fnVars, advVars>>

NextStock ==
    \/ SetRollingWindow
    \/ SetSymbol
    \/ SetVariable
    \/ RunRollingCell
    \/ RecomputeStockDmap
    \/ RecomputeSmoothed
    \/ RecomputeOutliers

SpecStock == InitStock /\ [][NextStock]_vars

(***************************************************************************)
(* The function-based dashboard (widgets linked to load_symbol_cb).        *)
(***************************************************************************)
\* symbol = pn.widgets.RadioButtonGroup(options=stock_symbols)
symbol_options == stock_symbols

\* variable = pn.widgets.Select(options=variables)
variable_options == variables

\* rolling_window = pn.widgets.IntSlider(name=..., value=10, start=1, end=365)
slider_value == 10

slider_start == 1

slider_end == 365

\* the value of a widget that holds none
NoValue == "None"

\* The two selection widgets are constructed with options and without a
\* value.  Which value such a widget then holds is decided by the widget
\* library and by nothing in the notebook, so every outcome is admitted: any
\* of the options, or no value.
InitialSelections(options) == Range(options) \cup {NoValue}

\* the positions the slider can be dragged to (a sample of start..end)
SliderInputs ==
    {slider_start, slider_end} \cup (slider_value .. slider_value + ExtraWindows)

\* def load_symbol_cb(symbol, variable): return load_symbol(symbol, variable)
load_symbol_cb(symbol, variable) == load_symbol(symbol, variable)

\* an invocation of load_symbol_cb by the DynamicMap: every keyword receives
\* the current value of the widget it is linked to
Invoke_load_symbol_cb(w) ==
    load_symbol_cb(w[load_symbol_cb_depends.symbol],
                   w[load_symbol_cb_depends.variable])

InitFn ==
    /\ widget \in [symbol         : InitialSelections(symbol_options),
                   variable       : InitialSelections(variable_options),
                   rolling_window : {slider_value}]
    /\ cb_dmap = Invoke_load_symbol_cb(widget)
    /\ cb_smoothed = rolling(Invoke_load_symbol_cb(widget), widget.rolling_window)
    /\ cb_pending = {}
    /\ explorer = IdleExplorer
    /\ cell = "none"
    /\ stock_dmap = NoElement
    /\ smoothed = NoElement
    /\ outliers = NoElement
    /\ pending = {}
    /\ adv = IdleAdv
    /\ overlay = NoElement
    /\ view_calls = 0
    /\ adv_pending = {}

\* the user operates a widget: its value becomes one the widget offers
ChangeWidget(name, value) ==
    /\ cb_pending = {}
    /\ IF widget[name] # value
       THEN /\ widget' = [widget EXCEPT ![name] = value]
            /\ cb_pending' = Affected(name, FnNodes)
       ELSE UNCHANGED <<widget, cb_pending>>
    /\ UNCHANGED <<cb_dmap, cb_smoothed>>
    /\ UNCHANGED <<stockVars, advVars>>

ClickSymbol == \E v \in Range(symbol_options) : ChangeWidget("symbol", v)

SelectVariable == \E v \in Range(variable_options) : ChangeWidget("variable", v)

DragRollingWindow == \E v \in SliderInputs : ChangeWidget("rolling_window", v)

RecomputeCbDmap ==
    /\ Ready("dmap", cb_pending)
    /\ cb_dmap' = Invoke_load_symbol_cb(widget)
    /\ cb_pending' = cb_pending \ {"dmap"}
    /\ UNCHANGED <<widget, cb_smoothed>>
    /\ UNCHANGED <<stockVars, advVars>>

RecomputeCbSmoothed ==
    /\ Ready("cb_smoothed", cb_pending)
    /\ cb_smoothed' = rolling(cb_dmap, widget.rolling_window)
    /\ cb_pending' = cb_pending \ {"cb_smoothed"}
    /\ UNCHANGED <<widget, cb_dmap>>
    /\ UNCHANGED <<stockVars, advVars>>

NextFn ==
    \/ ClickSymbol
    \/ SelectVariable
    \/ DragRollingWindow
    \/ RecomputeCbDmap
    \/ RecomputeCbSmoothed

SpecFn == InitFn /\ [][NextFn]_vars

(***************************************************************************)
(* The advanced dashboard (AdvancedStockExplorer, pn.Row(param, view)).    *)
(***************************************************************************)
\* datashade = param.Boolean(default=False)
datashade_default == FALSE

\* AdvancedStockExplorer()
AdvancedStockExplorer ==
    [rolling_window |-> rolling_window_default,
     symbol         |-> symbol_default,
     variable       |-> variable_default,
     datashade      |-> datashade_default]

\* dynspread(datashade(element, aggregator='any'))
dynspread_datashade(element) == [kind |-> "datashade", src |-> element]

\* the smoothed layer of view: the rolling mean, datashaded when the call of
\* view that built it found self.datashade set
view_smoothed(stocks, rolling_window, shaded) ==
    IF shaded THEN dynspread_datashade(rolling(stocks, rolling_window))
    ELSE rolling(stocks, rolling_window)

\* AdvancedStockExplorer.view(self), as first displayed; id is the identity of
\* the returned object, args the parameter values this call found
AdvancedStockExplorer_view_stale(self, id) ==
    [kind       |-> "Overlay",
     id         |-> id,
     args       |-> self,
     datashaded |-> self.datashade,
     stocks     |-> StockExplorer_load_symbol(StockExplorer),
     smoothed   |-> view_smoothed(StockExplorer_load_symbol(StockExplorer),
                                  StockExplorer.rolling_window, self.datashade),
     outliers   |-> rolling_outlier_std(StockExplorer_load_symbol(StockExplorer),
                                        StockExplorer.rolling_window)]
AdvancedStockExplorer_view(self, id) ==
    [kind       |-> "Overlay",
     id         |-> id,
     args       |-> self,
     datashaded |-> self.datashade,
     stocks     |-> StockExplorer_load_symbol(self),
     smoothed   |-> view_smoothed(StockExplorer_load_symbol(self),
                                  self.rolling_window, self.datashade),
     outliers   |-> rolling_outlier_std(StockExplorer_load_symbol(self),
                                        self.rolling_window)]

\* explorer = AdvancedStockExplorer(); pn.Row(explorer.param, explorer.view):
\* panel calls view once for the first display
InitAdv ==
    /\ adv = AdvancedStockExplorer
    /\ view_calls = 1
    /\ overlay = AdvancedStockExplorer_view(AdvancedStockExplorer, 1)
    /\ adv_pending = {}
    /\ explorer = IdleExplorer
    /\ cell = "none"
    /\ stock_dmap = NoElement
    /\ smoothed = NoElement
    /\ outliers = NoElement
    /\ pending = {}
    /\ widget = IdleWidget
    /\ cb_dmap = NoElement
    /\ cb_smoothed = NoElement
    /\ cb_pending = {}

\* explorer.<name> = value, from a widget of explorer.param or from code
SetAdvParam(name, value) ==
    /\ adv_pending = {}
    /\ IF Validate(name, value) /\ adv[name] # value
       THEN /\ "view" \in Affected(name, AdvNodes) => view_calls < MaxViewCalls
            /\ adv' = [adv EXCEPT ![name] = value]
            /\ adv_pending' = Affected(name, AdvNodes)
       ELSE UNCHANGED <<adv, adv_pending>>
    /\ UNCHANGED <<overlay, view_calls>>
    /\ UNCHANGED <<stockVars, fnVars>>

SetAdvRollingWindow == \E v \in WindowInputs : SetAdvParam("rolling_window", v)

SetAdvSymbol == \E v \in SymbolInputs : SetAdvParam("symbol", v)

SetAdvVariable == \E v \in VariableInputs : SetAdvParam("variable", v)

SetDatashade == \E v \in BOOLEAN : SetAdvParam("datashade", v)

\* panel calls view and replaces the displayed output with what it returns;
\* the DynamicMaps of the replaced output go with it
RunView ==
    /\ "view" \in adv_pending
    /\ view_calls' = view_calls + 1
    /\ overlay' = AdvancedStockExplorer_view(adv, view_calls + 1)
    /\ adv_pending' = {}
    /\ UNCHANGED adv
    /\ UNCHANGED <<stockVars, fnVars>>

RecomputeStocks ==
    /\ "view" \notin adv_pending
    /\ Ready("stocks", adv_pending)
    /\ overlay' = [overlay EXCEPT !.stocks = StockExplorer_load_symbol(adv)]
    /\ adv_pending' = adv_pending \ {"stocks"}
    /\ UNCHANGED <<adv, view_calls>>
    /\ UNCHANGED <<stockVars, fnVars>>

RecomputeViewSmoothed ==
    /\ "view" \notin adv_pending
    /\ Ready("view_smoothed", adv_pending)
    /\ overlay' = [overlay EXCEPT !.smoothed =
                      view_smoothed(overlay.stocks, adv.rolling_window,
                                    overlay.datashaded)]
    /\ adv_pending' = adv_pending \ {"view_smoothed"}
    /\ UNCHANGED <<adv, view_calls>>
    /\ UNCHANGED <<stockVars, fnVars>>

RecomputeViewOutliers ==
    /\ "view" \notin adv_pending
    /\ Ready("view_outliers", adv_pending)
    /\ overlay' = [overlay EXCEPT !.outliers =
                      rolling_outlier_std(overlay.stocks, adv.rolling_window)]
    /\ adv_pending' = adv_pending \ {"view_outliers"}
    /\ UNCHANGED <<adv, view_calls>>
    /\ UNCHANGED <<stockVars, fnVars>>

NextAdv ==
    \/ SetAdvRollingWindow
    \/ SetAdvSymbol
    \/ SetAdvVariable
    \/ SetDatashade
    \/ RunView
    \/ RecomputeStocks
    \/ RecomputeViewSmoothed
    \/ RecomputeViewOutliers

SpecAdv == InitAdv /\ [][NextAdv]_vars

(***************************************************************************)
(* Properties.                                                             *)
(***************************************************************************)
SymbolOrVariableChanged ==
    explorer'.symbol # explorer.symbol \/ explorer'.variable # explorer.variable

RollingWindowChanged == explorer'.rolling_window # explorer.rolling_window

\* C1: with load_symbol passed to a DynamicMap, every change of 'symbol' or
\* 'variable' re-invokes load_symbol, and once the changes have been processed
\* the displayed curve is the one of the current (symbol, variable) pair.
C1_CurveFollowsSymbolAndVariable ==
    /\ [][SymbolOrVariableChanged => "stock_dmap" \in pending']_vars
    /\ [](pending = {} =>
            stock_dmap = [kind     |-> "Curve",
                          symbol   |-> explorer.symbol,
                          variable |-> explorer.variable])

\* both parameters were changed and the changes processed
C1_Witness ==
    /\ pending = {}
    /\ explorer.symbol = "GOOG"
    /\ explorer.variable = "volume"
    /\ stock_dmap.symbol = "GOOG"
    /\ stock_dmap.variable = "volume"

\* C2: the parameter store of a StockExplorer starts at rolling_window=10,
\* symbol='AAPL', variable='adj_close' and always holds values inside the
\* declared domains: 1 <= rolling_window <= 365, symbol one of stock_symbols,
\* variable one of variables.
C2_StoreWithinDomains ==
    /\ explorer = [rolling_window |-> 10, symbol |-> "AAPL",
                   variable |-> "adj_close"]
    /\ [](/\ explorer.rolling_window \in 1 .. 365
          /\ explorer.symbol \in {"AAPL", "IBM", "FB", "GOOG", "MSFT"}
          /\ explorer.variable \in
                {"open", "high", "low", "close", "volume", "adj_close"})

\* the store holds the largest window and the last symbol: assignments at the
\* edge of the domains were accepted (those just outside are offered as well)
C2_Witness ==
    /\ explorer.rolling_window = 365
    /\ explorer.symbol = "MSFT"
    /\ explorer.variable = "open"

\* C3: load_symbol depends on exactly 'symbol' and 'variable': in the first
\* dashboard (before rolling_window is passed to an operation) load_symbol is
\* re-invoked for a change of those two and only for it, and a change of
\* rolling_window re-invokes nothing and leaves the displayed curve as it is.
C3_RollingWindowNotConnected ==
    [][cell = "dmap" =>
          /\ "stock_dmap" \in pending' <=> SymbolOrVariableChanged
          /\ RollingWindowChanged => pending' = {} /\ stock_dmap' = stock_dmap]_vars

\* rolling_window was changed in the first dashboard, the curve is the first one
C3_Witness ==
    /\ cell = "dmap"
    /\ explorer.rolling_window = 365
    /\ pending = {}
    /\ stock_dmap = [kind |-> "Curve", symbol |-> "AAPL", variable |-> "adj_close"]

\* C4: once rolling_window is passed to rolling and rolling_outlier_std, every
\* change of it re-applies both, and in every settled state the smoothed curve
\* and the outliers are computed with the current rolling_window on the same
\* source curve.
C4_OverlayUsesOneWindow ==
    /\ [][cell = "rolling" /\ RollingWindowChanged =>
             {"smoothed", "outliers"} \subseteq pending']_vars
    /\ [](cell = "rolling" /\ pending = {} =>
             /\ smoothed.kind = "rolling"
             /\ outliers.kind = "rolling_outlier_std"
             /\ smoothed.rolling_window = explorer.rolling_window
             /\ outliers.rolling_window = explorer.rolling_window
             /\ smoothed.src = outliers.src
             /\ smoothed.src = stock_dmap)

\* the window and the symbol were changed after the operations were connected
C4_Witness ==
    /\ cell = "rolling"
    /\ pending = {}
    /\ explorer.rolling_window = 365
    /\ explorer.symbol = "IBM"
    /\ smoothed.rolling_window = 365
    /\ outliers.rolling_window = 365
    /\ outliers.src.symbol = "IBM"

\* C5: with the view method in the panel Row, every toggle of datashade makes
\* panel call view again and display what it returns, and in every settled
\* state the displayed smoothed layer is datashaded exactly when datashade is
\* True.
C5_ViewFollowsDatashade ==
    /\ [][adv'.datashade # adv.datashade => "view" \in adv_pending']_vars
    /\ []["view" \in adv_pending /\ "view" \notin adv_pending' =>
             /\ view_calls' = view_calls + 1
             /\ overlay'.id = view_calls'
             /\ overlay'.id # overlay.id]_vars
    /\ [](adv_pending = {} =>
             (overlay.smoothed.kind = "datashade" <=> adv.datashade))

\* datashade was switched on and the output replaced by a datashaded one
C5_Witness ==
    /\ adv_pending = {}
    /\ adv.datashade
    /\ overlay.id = 2
    /\ overlay.smoothed.kind = "datashade"

\* C6: load_symbol_cb receives the RadioButtonGroup's value as 'symbol' and the
\* Select's value as 'variable' at every invocation, and after any sequence of
\* widget changes the display is rolling(load_symbol(symbol.value,
\* variable.value), rolling_window.value).
C6_CallbackLinkedByKeyword ==
    /\ []["dmap" \in cb_pending /\ "dmap" \notin cb_pending' =>
             /\ cb_dmap'.symbol = widget.symbol
             /\ cb_dmap'.variable = widget.variable]_vars
    /\ [](cb_pending = {} =>
             cb_smoothed =
                [kind |-> "rolling",
                 src  |-> [kind     |-> "Curve",
                           symbol   |-> widget.symbol,
                           variable |-> widget.variable],
                 rolling_window |-> widget.rolling_window])

\* all three widgets were operated and the changes processed
C6_Witness ==
    /\ cb_pending = {}
    /\ widget = [symbol |-> "MSFT", variable |-> "volume", rolling_window |-> 365]
    /\ cb_smoothed.src.symbol = "MSFT"
    /\ cb_smoothed.src.variable = "volume"
    /\ cb_smoothed.rolling_window = 365

AdvSymbolOrVariableChanged ==
    adv'.symbol # adv.symbol \/ adv'.variable # adv.variable

AdvRollingWindowChanged == adv'.rolling_window # adv.rolling_window

\* C7: view depends only on 'datashade': a change of symbol, variable or
\* rolling_window does not re-invoke view and does not replace the displayed
\* overlay; it re-invokes load_symbol (symbol, variable) or re-applies the
\* rolling operations (rolling_window) of the DynamicMaps the last call of
\* view created.
C7_ViewOnlyOnDatashade ==
    /\ [][AdvSymbolOrVariableChanged =>
             /\ "view" \notin adv_pending'
             /\ "stocks" \in adv_pending']_vars
    /\ [][AdvRollingWindowChanged =>
             adv_pending' = {"view_smoothed", "view_outliers"}]_vars
    /\ []["view" \notin adv_pending =>
             /\ overlay'.id = overlay.id
             /\ overlay'.datashaded = overlay.datashaded
             /\ view_calls' = view_calls]_vars
    /\ [](adv_pending = {} =>
             /\ overlay.stocks.symbol = adv.symbol
             /\ overlay.stocks.variable = adv.variable
             /\ overlay.outliers.rolling_window = adv.rolling_window)

\* symbol, variable and rolling_window were changed and the first output of
\* view is still the one displayed, with its data updated
C7_Witness ==
    /\ adv_pending = {}
    /\ view_calls = 1
    /\ overlay.id = 1
    /\ adv.symbol = "FB"
    /\ adv.variable = "low"
    /\ adv.rolling_window = 1
    /\ overlay.stocks = [kind |-> "Curve", symbol |-> "FB", variable |-> "low"]
    /\ overlay.smoothed.rolling_window = 1
    /\ overlay.outliers.rolling_window = 1

\* C8: the overlay a toggle of datashade makes view rebuild is computed from
\* the values symbol, variable and rolling_window have at that call (not the
\* defaults, not those of the previous call), and it, not an overlay of an
\* earlier call, is the displayed output.
C8_RebuiltFromCurrentValues ==
    /\ [][view_calls' # view_calls =>
             /\ overlay'.id = view_calls'
             /\ overlay'.id \notin 1 .. view_calls
             /\ overlay'.stocks =
                   [kind |-> "Curve", symbol |-> adv'.symbol,
                    variable |-> adv'.variable]
             /\ overlay'.outliers =
                   [kind |-> "rolling_outlier_std", src |-> overlay'.stocks,
                    rolling_window |-> adv'.rolling_window]
             /\ overlay'.smoothed.kind = "datashade" <=> adv'.datashade
             /\ LET mean == IF adv'.datashade THEN overlay'.smoothed.src
                            ELSE overlay'.smoothed
                IN  mean = [kind |-> "rolling", src |-> overlay'.stocks,
                            rolling_window |-> adv'.rolling_window]]_vars
    /\ [](overlay.id = view_calls)

\* view was called again when symbol, variable and rolling_window had all been
\* changed, and its overlay is displayed
C8_Witness ==
    /\ adv_pending = {}
    /\ view_calls = 2
    /\ overlay.id = 2
    /\ overlay.args.symbol = "IBM"
    /\ overlay.args.variable = "high"
    /\ overlay.args.rolling_window = 365
    /\ overlay.stocks.symbol = "IBM"
    /\ overlay.outliers.rolling_window = 365

====
